---------------------------- MODULE Spec2Model ----------------------------
(***************************************************************************)
(* Model of extension/public/resize_icon.py: one invocation reads the      *)
(* input path from argv, opens the image and, for each size of the fixed   *)
(* list [16, 48, 128], resizes the image with nearest-neighbour sampling,  *)
(* saves it as icon-<size>.png in the working directory and prints a       *)
(* confirmation line.  The working directory outlives the process, so the  *)
(* script may be invoked a second time on the directory the first          *)
(* invocation left behind.                                                 *)
(*                                                                         *)
(* A bitmap is a record [w, h, px] with px the sequence of its h rows,      *)
(* each a sequence of w pixels.  A file is a sequence: the header fields   *)
(* w and h followed by the scanlines.  The directory is a function from    *)
(* the names of the files that exist to their contents.                    *)
(***************************************************************************)
EXTENDS Integers, Sequences, FiniteSets, TLC

VARIABLES
    argv,        \* sys.argv of the invocation
    fs,          \* the working directory: file name -> contents
    pc,          \* position of the script
    input_path,  \* line 5
    img,         \* line 6
    i,           \* index into Sizes of the loop variable `size`
    resized,     \* line 10
    stdout,      \* lines printed by the running invocation
    err,         \* name of the unhandled exception, "" if none
    written,     \* names of the files whose save returned in this invocation
    run,         \* 1 for the first invocation, 2 for the re-run
    fs0,         \* the working directory as the running invocation found it
    prev         \* what the previous invocation ended with: its pc, img, stdout

vars == <<argv, fs, pc, input_path, img, i, resized, stdout, err, written,
          run, fs0, prev>>

----------------------------------------------------------------------------
(* Bounds of the model. *)

\* Largest width and height of the small input images.
MaxDim == 3

\* Pixel values of the small input images.
Colors == {0, 1}

----------------------------------------------------------------------------
(* Bitmaps and the library calls the script makes. *)

\* Sizes in another order.
SizesUnordered == <<48, 16, 128>>

\* for size in [16, 48, 128]
Sizes == <<16, 48, 128>>

SizeSet == {Sizes[k] : k \in 1..Len(Sizes)}

\* FileName with the size left out of the name.
FileNameNoSize(size) == "icon.png"

\* f'icon-{size}.png'
FileName(size) == "icon-" \o ToString(size) \o ".png"

IconNames == {FileName(s) : s \in SizeSet}

\* f'Created icon-{size}.png'
Message(size) == "Created " \o FileName(size)

\* The value of a variable that is not bound yet.
NoImage == [w |-> 0, h |-> 0, px |-> <<>>]

Pixel(b, x, y) == b.px[y + 1][x + 1]

Solid(w, h, c) == [w |-> w, h |-> h, px |-> [r \in 1..h |-> [k \in 1..w |-> c]]]

\* SrcCoord rounding to the nearest pixel corner instead of sampling the
\* pixel centre: the last destination pixels fall outside the source.
SrcCoordCorner(x, src, dst) == ((2 * x + 1) * src + dst) \div (2 * dst)

\* Pixel reading outside the bitmap as 2, a value no input holds.
PixelOrFill(b, x, y) ==
    IF x < b.w /\ y < b.h THEN b.px[y + 1][x + 1] ELSE 2

\* Resize sampling at pixel corners, filling what falls outside the source.
ResizeCornerFill(b, tw, th) ==
    [w |-> tw, h |-> th,
     px |-> [r \in 1..th |-> [k \in 1..tw |->
                PixelOrFill(b, SrcCoordCorner(k - 1, b.w, tw),
                               SrcCoordCorner(r - 1, b.h, th))]]]

\* Nearest-neighbour sampling: the source coordinate of the centre of
\* destination pixel x, for a source of `src` pixels and a destination of
\* `dst` pixels.
SrcCoord(x, src, dst) == ((2 * x + 1) * src) \div (2 * dst)

\* Resize that keeps the aspect ratio of the source, as a thumbnail does.
ResizeKeepAspect(b, tw, th) ==
    LET hh == IF (tw * b.h) \div b.w < 1 THEN 1
              ELSE IF (tw * b.h) \div b.w > th THEN th
              ELSE (tw * b.h) \div b.w
    IN  [w |-> tw, h |-> hh,
         px |-> [r \in 1..hh |-> [k \in 1..tw |->
                    Pixel(b, SrcCoord(k - 1, b.w, tw),
                             SrcCoord(r - 1, b.h, hh))]]]

\* img.resize((tw, th), Image.Resampling.NEAREST): a new bitmap, the
\* argument is left as it is.
Resize(b, tw, th) ==
    [w |-> tw, h |-> th,
     px |-> [r \in 1..th |-> [k \in 1..tw |->
                Pixel(b, SrcCoord(k - 1, b.w, tw),
                         SrcCoord(r - 1, b.h, th))]]]

\* The encoder of save(..., 'PNG'): lossless, header then scanlines.
Encode(b) == <<b.w, b.h>> \o b.px

\* The decoder of Image.open.
Decodable(bytes) ==
    /\ Len(bytes) >= 2
    /\ bytes[1] > 0
    /\ bytes[2] > 0
    /\ Len(bytes) = 2 + bytes[2]
    /\ \A r \in 1..bytes[2] : Len(bytes[2 + r]) = bytes[1]

Decode(bytes) ==
    [w |-> bytes[1], h |-> bytes[2], px |-> SubSeq(bytes, 3, Len(bytes))]

\* WriteFile opening the file for appending.
WriteFileAppend(dir, name, bytes) ==
    IF name \in DOMAIN dir THEN (name :> (dir[name] \o bytes)) @@ dir
    ELSE (name :> bytes) @@ dir

\* open(filename, "w+b") followed by the write of all bytes.
WriteFile(dir, name, bytes) == (name :> bytes) @@ dir

\* What a save that raises leaves of its target: the directory as it was
\* (the file could not be opened for writing), or the target cut short
\* after its header (the file was opened, which truncates it, and the write
\* stopped).
FailedSaveOutcomes(dir, name, bytes) ==
    {dir, WriteFile(dir, name, SubSeq(bytes, 1, 2))}

----------------------------------------------------------------------------
(* The inputs. *)

SmallImages ==
    UNION {{[w |-> d[1], h |-> d[2], px |-> p] :
                p \in [1..d[2] -> [1..d[1] -> Colors]]} :
           d \in {e \in (1..MaxDim) \X (1..MaxDim) : e[1] * e[2] <= MaxDim}}

InputImages == SmallImages \cup {Solid(256, 256, c) : c \in Colors}

\* Contents of the input file: an image, an empty file, a file cut short
\* after the first of its two scanlines.
InputContents ==
    {Encode(b) : b \in InputImages} \cup {<<>>, <<2, 2, <<0, 0>>>>}

\* The path given on the command line: a file of its own, or the name of
\* one of the icons the script writes.
InputPaths == {"art.png", FileName(Sizes[1])}

ScriptName == "resize_icon.py"

NoRun == [pc |-> "none", img |-> NoImage, stdout |-> <<>>]

Init ==
    /\ \E p \in InputPaths :
         /\ argv \in {<<ScriptName>>, <<ScriptName, p>>}
         /\ fs \in {<<>>} \cup {p :> c : c \in InputContents}
    /\ pc = "argv"
    /\ input_path = ""
    /\ img = NoImage
    /\ i = 1
    /\ resized = NoImage
    /\ stdout = <<>>
    /\ err = ""
    /\ written = {}
    /\ run = 1
    /\ fs0 = fs
    /\ prev = NoRun

----------------------------------------------------------------------------
(* The steps of the script. *)

\* input_path = sys.argv[1]
ReadArgv ==
    /\ pc = "argv"
    /\ IF Len(argv) >= 2
       THEN /\ input_path' = argv[2]
            /\ pc' = "open"
            /\ err' = err
       ELSE /\ pc' = "failed"
            /\ err' = "IndexError"
            /\ input_path' = input_path
    /\ UNCHANGED <<argv, fs, img, i, resized, stdout, written, run, fs0, prev>>

\* Open that falls back to a blank 1x1 image when the file cannot be opened.
OpenOrBlank ==
    /\ pc = "open"
    /\ img' = IF input_path \in DOMAIN fs /\ Decodable(fs[input_path])
              THEN Decode(fs[input_path])
              ELSE Solid(1, 1, 0)
    /\ i' = 1
    /\ pc' = "resize"
    /\ UNCHANGED <<argv, fs, input_path, resized, stdout, err, written, run,
                   fs0, prev>>

\* img = Image.open(input_path)
Open ==
    /\ pc = "open"
    /\ IF input_path \notin DOMAIN fs
       THEN /\ pc' = "failed"
            /\ err' = "FileNotFoundError"
            /\ UNCHANGED <<img, i>>
       ELSE IF ~Decodable(fs[input_path])
       THEN /\ pc' = "failed"
            /\ err' = "UnidentifiedImageError"
            /\ UNCHANGED <<img, i>>
       ELSE /\ img' = Decode(fs[input_path])
            /\ i' = 1
            /\ pc' = "resize"
            /\ err' = err
    /\ UNCHANGED <<argv, fs, input_path, resized, stdout, written, run, fs0, prev>>

\* ResizeStep that assigns the result to img as well, so that the next
\* iteration resizes the icon of the previous one.
ResizeStepInPlace ==
    /\ pc = "resize"
    /\ resized' = Resize(img, Sizes[i], Sizes[i])
    /\ img' = resized'
    /\ pc' = "save"
    /\ UNCHANGED <<argv, fs, input_path, i, stdout, err, written, run, fs0, prev>>

\* resized = img.resize((size, size), Image.Resampling.NEAREST)
ResizeStep ==
    /\ pc = "resize"
    /\ resized' = Resize(img, Sizes[i], Sizes[i])
    /\ pc' = "save"
    /\ UNCHANGED <<argv, fs, input_path, img, i, stdout, err, written, run, fs0, prev>>

\* SaveOk that goes on to the print without having written the file.
SaveOkNoWrite ==
    /\ pc = "save"
    /\ pc' = "print"
    /\ UNCHANGED <<argv, fs, input_path, img, i, resized, stdout, err, written,
                   run, fs0, prev>>

\* resized.save(f'icon-{size}.png', 'PNG') returns
SaveOk ==
    /\ pc = "save"
    /\ fs' = WriteFile(fs, FileName(Sizes[i]), Encode(resized))
    /\ written' = written \cup {FileName(Sizes[i])}
    /\ pc' = "print"
    /\ UNCHANGED <<argv, input_path, img, i, resized, stdout, err, run, fs0, prev>>

\* SaveFail with the exception caught inside the loop: the failure is
\* noted and the loop goes on with the next size.
SaveFailContinue ==
    /\ pc = "save"
    /\ fs' \in FailedSaveOutcomes(fs, FileName(Sizes[i]), Encode(resized))
    /\ err' = "OSError"
    /\ IF i < Len(Sizes)
       THEN /\ i' = i + 1
            /\ pc' = "resize"
       ELSE /\ i' = i
            /\ pc' = "failed"
    /\ UNCHANGED <<argv, input_path, img, resized, stdout, written, run, fs0, prev>>

\* resized.save(f'icon-{size}.png', 'PNG') raises
SaveFail ==
    /\ pc = "save"
    /\ fs' \in FailedSaveOutcomes(fs, FileName(Sizes[i]), Encode(resized))
    /\ pc' = "failed"
    /\ err' = "OSError"
    /\ UNCHANGED <<argv, input_path, img, i, resized, stdout, written, run, fs0, prev>>

\* PrintStep of a loop that stops one size early.
PrintStepShortLoop ==
    /\ pc = "print"
    /\ stdout' = Append(stdout, Message(Sizes[i]))
    /\ IF i < Len(Sizes) - 1
       THEN /\ i' = i + 1
            /\ pc' = "resize"
       ELSE /\ i' = i
            /\ pc' = "done"
    /\ UNCHANGED <<argv, fs, input_path, img, resized, err, written, run, fs0, prev>>

\* print(f'Created icon-{size}.png'), then the next iteration or the end
PrintStep ==
    /\ pc = "print"
    /\ stdout' = Append(stdout, Message(Sizes[i]))
    /\ IF i < Len(Sizes)
       THEN /\ i' = i + 1
            /\ pc' = "resize"
       ELSE /\ i' = i
            /\ pc' = "done"
    /\ UNCHANGED <<argv, fs, input_path, img, resized, err, written, run, fs0, prev>>

\* After an invocation that completed, the script is invoked again with the
\* same command line in the same directory: a new process, the files stay.
Rerun ==
    /\ pc = "done"
    /\ run = 1
    /\ run' = 2
    /\ fs0' = fs
    /\ prev' = [pc |-> pc, img |-> img, stdout |-> stdout]
    /\ pc' = "argv"
    /\ input_path' = ""
    /\ img' = NoImage
    /\ i' = 1
    /\ resized' = NoImage
    /\ stdout' = <<>>
    /\ err' = ""
    /\ written' = {}
    /\ UNCHANGED <<argv, fs>>

Next ==
    \/ ReadArgv
    \/ Open
    \/ ResizeStep
    \/ SaveOk
    \/ SaveFail
    \/ PrintStep
    \/ Rerun

Spec == Init /\ [][Next]_vars

\* The interpreter runs the script to its end: a step that can be taken
\* is taken.  A second invocation is up to the user.
Step == ReadArgv \/ Open \/ ResizeStep \/ SaveOk \/ SaveFail \/ PrintStep

FairSpec == Spec /\ WF_vars(Step)

\* The exit status of a finished invocation.
ExitStatus == IF pc = "done" THEN 0 ELSE 1

Finished == pc \in {"done", "failed"}

----------------------------------------------------------------------------
(* The properties. *)

\* The three names and the three lines, written out.
ExpectedNames == {"icon-16.png", "icon-48.png", "icon-128.png"}

ExpectedLines ==
    <<"Created icon-16.png", "Created icon-48.png", "Created icon-128.png">>

\* The image the running invocation was given: the decoding of the input
\* file as the invocation found it.
Original == Decode(fs0[argv[2]])

InputMissing == Len(argv) >= 2 /\ argv[2] \notin DOMAIN fs0

\* Files other than `names` are as the invocation found them.
OthersUntouched(names) ==
    /\ DOMAIN fs \ names = DOMAIN fs0 \ names
    /\ \A n \in DOMAIN fs \ names : fs[n] = fs0[n]

\* C1: an invocation that completes has written exactly the three files
\* icon-16.png, icon-48.png and icon-128.png: none of them is missing from
\* the directory and no file of another name was created, changed or removed.
C1_ExactlyThreeFiles ==
    pc = "done" =>
        /\ written = ExpectedNames
        /\ ExpectedNames \subseteq DOMAIN fs
        /\ \A n \in ExpectedNames : Decodable(fs[n])
        /\ OthersUntouched(ExpectedNames)

C1_Witness ==
    /\ pc = "done"
    /\ run = 1
    /\ img.w # img.h
    /\ argv[2] = "art.png"
    /\ DOMAIN fs = ExpectedNames \cup {"art.png"}

\* C2: in every state, every file a save of this invocation has produced
\* decodes to a square bitmap whose width and height are the size in its
\* name, one of 16, 48, 128, whatever the shape of the input; the bitmap
\* being saved or printed is square with the side of the current size.
C2_SquareOfNamedSize ==
    /\ \A n \in written :
         /\ n \in DOMAIN fs
         /\ Decodable(fs[n])
         /\ \E s \in {16, 48, 128} :
              /\ n = "icon-" \o ToString(s) \o ".png"
              /\ Decode(fs[n]).w = s
              /\ Decode(fs[n]).h = s
              /\ Len(Decode(fs[n]).px) = s
              /\ \A r \in 1..s : Len(Decode(fs[n]).px[r]) = s
    /\ pc \in {"save", "print"} =>
         /\ resized.w = Sizes[i]
         /\ resized.h = Sizes[i]

C2_Witness ==
    /\ pc = "print"
    /\ i = 2
    /\ img.w = 3
    /\ img.h = 1
    /\ written = {"icon-16.png", "icon-48.png"}

\* With no file at the input path the script gets no further than the open.
C3_NothingWritten ==
    InputMissing =>
        /\ pc \in {"argv", "open", "failed"}
        /\ written = {}
        /\ fs = fs0
        /\ stdout = <<>>
        /\ resized = NoImage
        /\ pc = "failed" => err = "FileNotFoundError" /\ ExitStatus # 0

\* C3: when the input path names no file, the invocation fails at the open
\* step: it never reaches a resize, a save or a print, the directory stays
\* as it was, nothing is printed, and it ends failed, with a non-zero
\* status, on FileNotFoundError.
C3_MissingInputFails ==
    /\ []C3_NothingWritten
    /\ InputMissing ~> (pc = "failed" /\ err = "FileNotFoundError")

C3_Witness ==
    /\ InputMissing
    /\ pc = "failed"
    /\ err = "FileNotFoundError"

\* The state of an invocation whose save of size number i raised.
C4_FailedState ==
    (pc = "failed" /\ err = "OSError") =>
        /\ written = {FileName(Sizes[k]) : k \in 1..(i - 1)}
        /\ stdout = [k \in 1..(i - 1) |-> Message(Sizes[k])]
        /\ \A k \in 1..(i - 1) :
             /\ FileName(Sizes[k]) \in DOMAIN fs
             /\ fs[FileName(Sizes[k])] = Encode(Resize(img, Sizes[k], Sizes[k]))
        /\ OthersUntouched({FileName(Sizes[k]) : k \in 1..i})
        /\ ExitStatus # 0

\* A save that does not return ends the invocation at once.
C4_AbortStep ==
    (pc = "save" /\ pc' # "print") =>
        /\ pc' = "failed"
        /\ err' # ""
        /\ i' = i
        /\ written' = written
        /\ stdout' = stdout
        /\ DOMAIN fs' \ {FileName(Sizes[i])} = DOMAIN fs \ {FileName(Sizes[i])}
        /\ \A n \in DOMAIN fs \ {FileName(Sizes[i])} : fs'[n] = fs[n]

\* A failed invocation takes no further step.
C4_NoRecovery ==
    (pc = "failed" /\ run' = run) =>
        UNCHANGED <<pc, fs, stdout, written, i, err>>

\* C4: a save that raises aborts the loop at once, with no retry and no
\* cleanup: the files of the sizes before it stay as they were written, no
\* file of a later size is written, no further line is printed, and the
\* invocation stays in the failed state.
C4_FailureAborts ==
    /\ []C4_FailedState
    /\ [][C4_AbortStep]_vars
    /\ [][C4_NoRecovery]_vars

C4_Witness ==
    /\ pc = "failed"
    /\ err = "OSError"
    /\ i = 2
    /\ run = 1
    /\ written = {"icon-16.png"}
    /\ "icon-128.png" \notin DOMAIN fs

\* C5: in every state of every invocation, failed ones included, standard
\* output is a prefix of the lines Created icon-16.png, Created icon-48.png,
\* Created icon-128.png, and an invocation that completes has printed all
\* three.
C5_OutputIsPrefix ==
    /\ Len(stdout) <= 3
    /\ stdout = SubSeq(ExpectedLines, 1, Len(stdout))
    /\ pc = "done" => stdout = ExpectedLines

C5_Witness ==
    /\ pc = "failed"
    /\ Len(stdout) = 2
    /\ img.w # img.h

\* C6: when the second invocation completes on the input image the first
\* completed invocation had, every icon file is identical to the one the
\* first invocation left and the directory is as the first left it.
C6_RerunIdentical ==
    (pc = "done" /\ run = 2 /\ prev.pc = "done" /\ prev.img = img) =>
        /\ \A n \in ExpectedNames : n \in DOMAIN fs0 /\ fs[n] = fs0[n]
        /\ fs = fs0

C6_Witness ==
    /\ pc = "done"
    /\ run = 2
    /\ prev.pc = "done"
    /\ prev.img = img
    /\ img.w = 3

\* An invocation that has ended, ended in one of the two ways.
C7_EndStates ==
    /\ pc = "done" =>
         /\ written = ExpectedNames
         /\ ExpectedNames \subseteq DOMAIN fs
         /\ Len(stdout) = 3
         /\ err = ""
    /\ pc = "failed" => err # "" /\ Len(stdout) < 3 /\ written # ExpectedNames
    /\ Finished => (ExitStatus = 0 <=> (Cardinality(written) = 3 /\ Len(stdout) = 3))

\* C7: an invocation ends successfully only with all three files written
\* and all three lines printed, an invocation that fails ends with an
\* unhandled exception, and every invocation comes to an end.
C7_TerminatesDoneOrFailed ==
    /\ []C7_EndStates
    /\ (~Finished) ~> Finished

C7_Witness ==
    /\ pc = "done"
    /\ run = 2
    /\ written = ExpectedNames
    /\ Len(stdout) = 3

\* The pixel values of a bitmap.
Values(b) == UNION {{b.px[r][k] : k \in 1..b.w} : r \in 1..b.h}

\* C8: every pixel of every icon produced holds a value of the source, and
\* when the source is a 256x256 image of one colour every pixel of the
\* three icons is that colour.
C8_SolidStaysSolid ==
    /\ \A n \in written : Values(Decode(fs[n])) \subseteq Values(img)
    /\ (img.w = 256 /\ img.h = 256 /\ Cardinality(Values(img)) = 1) =>
         /\ \A n \in written : Values(Decode(fs[n])) = Values(img)
         /\ pc \in {"save", "print", "done"} => Values(resized) = Values(img)

C8_Witness ==
    /\ pc = "done"
    /\ img.w = 256
    /\ img.h = 256
    /\ Values(img) = {1}
    /\ written = ExpectedNames
    /\ Decode(fs["icon-128.png"]) = Solid(128, 128, 1)

\* The source is the same bitmap before and after a step of the loop.
C9_SourceKept ==
    (pc \in {"resize", "save", "print"}) => img' = img

\* The source is the decoded input and each icon is a resize of it.
C9_FromOriginal ==
    /\ pc \in {"resize", "save", "print", "done"} => img = Original
    /\ pc \in {"save", "print"} =>
         resized = Resize(Original, Sizes[i], Sizes[i])
    /\ pc = "done" =>
         \A s \in {16, 48, 128} :
             Decode(fs[FileName(s)]) = Resize(Original, s, s)

\* C9: the source image is decoded once and never modified, and each of
\* the three icons is the resize of the decoded input, not of an icon made
\* before it.
C9_SourceReadOnly ==
    /\ []C9_FromOriginal
    /\ [][C9_SourceKept]_vars

C9_Witness ==
    /\ pc = "done"
    /\ img.w = 3
    /\ img.px = <<<<0, 1, 0>>>>
    /\ Decode(fs["icon-48.png"]) # Resize(Decode(fs["icon-16.png"]), 48, 48)

\* Lines and saved files in a state of an invocation.
C10_Counts ==
    /\ Len(stdout) <= Cardinality(written)
    /\ Cardinality(written) <= Len(stdout) + 1
    /\ pc = "print" <=> Cardinality(written) = Len(stdout) + 1
    /\ \A s \in {16, 48, 128} :
         (\E k \in 1..Len(stdout) :
              stdout[k] = "Created icon-" \o ToString(s) \o ".png") =>
             /\ "icon-" \o ToString(s) \o ".png" \in written
             /\ "icon-" \o ToString(s) \o ".png" \in DOMAIN fs

\* Within an invocation a line is printed only when one more file than
\* lines has been saved, and a file is saved only when every saved file has
\* its line; neither step does the other's work.
C10_Alternate ==
    run' = run =>
        /\ stdout' # stdout =>
              /\ written' = written
              /\ Cardinality(written) = Len(stdout) + 1
              /\ Len(stdout') = Len(stdout) + 1
        /\ written' # written =>
              /\ stdout' = stdout
              /\ Cardinality(written) = Len(stdout)
              /\ Cardinality(written') = Cardinality(written) + 1

\* C10: the number of printed lines is at most the number of files saved
\* and at most one behind it, saves and prints alternate, and a line
\* Created icon-<size>.png is on standard output only when icon-<size>.png
\* has been saved by this invocation.
C10_PrintAfterSave ==
    /\ []C10_Counts
    /\ [][C10_Alternate]_vars

C10_Witness ==
    /\ pc = "print"
    /\ Len(stdout) = 1
    /\ Cardinality(written) = 2

=============================================================================
